---- MODULE Spec2Model ----
(***************************************************************************)
(* Model of src/aco.py: class UNO_OPTIMO, an ant-colony style packing of   *)
(* shipments into capacity-bounded vehicles.                               *)
(*                                                                         *)
(* Shipments and vehicles are identified by their position in              *)
(* shipment_data / vehicle_data (the code passes the dict objects around   *)
(* by reference, so position = identity).  A list of vehicle loads is a    *)
(* sequence, one entry per vehicle, of the sequence of shipment indices    *)
(* in load['shipments']; load['capacity'] is vehicle_data[i].              *)
(* Pheromones and probabilities are exact rationals <<num, den>>.          *)
(* random.choices is a nondeterministic draw among the indices of          *)
(* positive weight.                                                        *)
(***************************************************************************)
EXTENDS Integers, Sequences, FiniteSets, TLC

\* ---------------------------------------------------------------- bounds
\* largest sum of the vehicle capacities of an input
MaxFleetCapacity == 3
\* largest sum of the shipment demands of an input
MaxTotalDemand == 3
\* largest number of construct_solution calls of one solve(),
\* num_ants * num_iterations
MaxConstructions == 2

\* decay rates tried: 0 and 1/2 are inside [0,1), 1 is outside
Decays == {<<0, 1>>, <<1, 2>>, <<1, 1>>}
\* exponents tried (the constructor's default is 1); with positive demands
\* heuristic_val is positive, so beta does not change which weights are 0
Alphas == {0, 1}
Betas == {1}

\* ------------------------------------------------------------- rationals
RECURSIVE Gcd(_, _)
Gcd(a, b) == IF b = 0 THEN a ELSE Gcd(b, a % b)

Abs(n) == IF n < 0 THEN -n ELSE n

RNorm(n, d) ==
    IF n = 0 THEN <<0, 1>>
    ELSE LET g == Gcd(Abs(n), d) IN <<n \div g, d \div g>>

RMul(a, b) == RNorm(a[1] * b[1], a[2] * b[2])

RAdd(a, b) == RNorm(a[1] * b[2] + b[1] * a[2], a[2] * b[2])

ROne == <<1, 1>>

RZero == <<0, 1>>

\* 1 - r
ROneMinus(r) == RNorm(r[2] - r[1], r[2])

\* r ** e for a natural exponent; Python gives x ** 0 = 1 also for x = 0
RECURSIVE RPow(_, _)
RPow(r, e) == IF e = 0 THEN ROne ELSE RMul(r, RPow(r, e - 1))

RECURSIVE RSum(_)
RSum(s) == IF s = <<>> THEN RZero ELSE RAdd(Head(s), RSum(Tail(s)))

\* ------------------------------------------------------------- sentinels
\* float("inf")
Inf == -1

\* x < y on numbers that may be float("inf")
NumLess(x, y) == x # Inf /\ (y = Inf \/ (y # Inf /\ x < y))

\* Python None versus a list value
None == [none |-> TRUE, loads |-> <<>>]

Some(l) == [none |-> FALSE, loads |-> l]

\* Python truthiness of "None or a list"
Truthy(x) == ~x.none /\ x.loads # <<>>

\* ------------------------------------------------------------- variables
VARIABLES
    num_ants, num_iterations, decay, alpha, beta,   \* configuration
    shipment_data,            \* sequence of demands (shipment['capacity'])
    vehicle_data,             \* sequence of capacities (vehicle['capacity'])
    best_solution, best_vehicles_used, skipped_shipments, best_evaluation,
    pc,                       \* position in solve()
    pheromones,               \* local of solve()
    iteration, ant,           \* loop counters of solve()
    iteration_best_solution, iteration_best_vehicles_used,
    iteration_skipped_shipments,
    vehicle_loads,            \* local of solve(): the last ant's loads
    current_evaluation,       \* local of solve()
    cs_loads, cs_skipped, cs_k,   \* locals of construct_solution()
    candidates                \* what construct_solution returned this round

config == <<num_ants, num_iterations, decay, alpha, beta,
            shipment_data, vehicle_data>>

record == <<best_solution, best_vehicles_used, skipped_shipments,
            best_evaluation>>

roundvars == <<iteration_best_solution, iteration_best_vehicles_used,
               iteration_skipped_shipments, vehicle_loads>>

csvars == <<cs_loads, cs_skipped, cs_k>>

vars == <<config, record, pc, pheromones, iteration, ant, roundvars,
          current_evaluation, csvars, candidates>>

\* -------------------------------------------------------- pure functions
RECURSIVE SeqSum(_)
SeqSum(s) == IF s = <<>> THEN 0 ELSE Head(s) + SeqSum(Tail(s))

\* the lists of positive integers whose sum is at most n
ListsUpTo(n) == {s \in UNION {[1..m -> 1..n] : m \in 0..n} : SeqSum(s) <= n}

\* the pairs (num_ants, num_iterations) tried, zero counts included
Counts ==
    {c \in (0..MaxConstructions) \X (0..MaxConstructions) :
        c[1] * c[2] <= MaxConstructions}

\* sum(s["capacity"] for s in shipments)
RECURSIVE used_capacity(_)
used_capacity(shipments) ==
    IF shipments = <<>> THEN 0
    ELSE shipment_data[Head(shipments)] + used_capacity(Tail(shipments))

\* sum(1 for vehicle in vehicle_loads if vehicle['shipments'])
vehicles_used(loads) == Cardinality({i \in DOMAIN loads : loads[i] # <<>>})

RECURSIVE SumOver(_, _)
SumOver(f, S) ==
    IF S = {} THEN 0
    ELSE LET x == CHOOSE y \in S : TRUE IN f[x] + SumOver(f, S \ {x})

initialize_pheromones(num_vehicles) ==
    [i \in 1..num_vehicles |-> [j \in 1..num_vehicles |-> ROne]]

evaluate_solution(loads) ==
    LET usedSet == {i \in DOMAIN loads : loads[i] # <<>>}
        remaining == [i \in usedSet |->
                         vehicle_data[i] - used_capacity(loads[i])]
    IN <<Cardinality(usedSet), SumOver(remaining, usedSet)>>

\* the test of line 57, remaining_capacity computed as on line 56
Fits_ignores_load(demand, capacity, used) == demand <= capacity

Fits_strict(demand, capacity, used) == demand < capacity - used

Fits(demand, capacity, used) == demand <= capacity - used

\* the weight of line 61 for vehicle i, 0 when the shipment does not fit
probability(s, loads, ph, i) ==
    LET used == used_capacity(loads[i])
        heuristic_val == RNorm(used + shipment_data[s], vehicle_data[i])
        pheromone_val == ph[i][i]
    IN IF Fits(shipment_data[s], vehicle_data[i], used)
       THEN RMul(RPow(pheromone_val, alpha), RPow(heuristic_val, beta))
       ELSE RZero

\* every outcome place_shipment can have: the return value and the loads
place_shipment(s, loads, ph) ==
    LET probabilities == [i \in DOMAIN loads |-> probability(s, loads, ph, i)]
        total == RSum(probabilities)
    IN IF total = RZero
       THEN {[placed |-> FALSE, loads |-> loads]}
       ELSE {[placed |-> TRUE,
              loads |-> [loads EXCEPT ![i] = Append(@, s)]] :
                i \in {v \in DOMAIN loads :
                          RMul(probabilities[v], <<total[2], total[1]>>)[1] > 0}}

\* lines 89-90 of construct_solution
record_skipped_inverted(placed, skipped, s) ==
    IF placed THEN Append(skipped, s) ELSE skipped

record_skipped(placed, skipped, s) ==
    IF ~placed THEN Append(skipped, s) ELSE skipped

\* Python tuple comparison a < b of two scores
TupleLess_always(a, b) == TRUE

TupleLess(a, b) ==
    IF a[1] # b[1] THEN NumLess(a[1], b[1]) ELSE NumLess(a[2], b[2])

\* the guard of lines 122-123 for row i
Reinforced(ibs, i) ==
    Truthy(ibs) /\ i <= Len(ibs.loads) /\ ibs.loads[i] # <<>>

\* line 124 would divide by zero
DivisionByZero(ph, ibs, ibvu) ==
    \E i \in DOMAIN ph : Reinforced(ibs, i) /\ ibvu = 0

\* lines 119-124
PheromoneUpdate_diagonal(ph, ibs, ibvu, d) ==
    [i \in DOMAIN ph |-> [j \in DOMAIN ph[i] |->
        LET decayed == RMul(ph[i][j], ROneMinus(d))
        IN IF Reinforced(ibs, i) /\ i = j
           THEN RAdd(decayed, <<1, ibvu>>) ELSE decayed]]

PheromoneUpdate_unit(ph, ibs, ibvu, d) ==
    [i \in DOMAIN ph |-> [j \in DOMAIN ph[i] |->
        LET decayed == RMul(ph[i][j], ROneMinus(d))
        IN IF Reinforced(ibs, i)
           THEN RAdd(decayed, ROne) ELSE decayed]]

PheromoneUpdate(ph, ibs, ibvu, d) ==
    [i \in DOMAIN ph |-> [j \in DOMAIN ph[i] |->
        LET decayed == RMul(ph[i][j], ROneMinus(d))
        IN IF Reinforced(ibs, i)
           THEN RAdd(decayed, <<1, ibvu>>) ELSE decayed]]

\* ------------------------------------------------------------------ Init
\* the object after __init__, for every configuration within the bounds;
\* demands and capacities are positive
Init ==
    /\ \E c \in Counts : num_ants = c[1] /\ num_iterations = c[2]
    /\ decay \in Decays
    /\ alpha \in Alphas
    /\ beta \in Betas
    /\ shipment_data \in ListsUpTo(MaxTotalDemand)
    /\ vehicle_data \in ListsUpTo(MaxFleetCapacity)
    /\ best_solution = None
    /\ best_vehicles_used = Inf
    /\ skipped_shipments = <<>>
    /\ best_evaluation = <<Inf, Inf>>
    /\ pc = "idle"
    /\ pheromones = <<>>
    /\ iteration = 0
    /\ ant = 0
    /\ iteration_best_solution = None
    /\ iteration_best_vehicles_used = Inf
    /\ iteration_skipped_shipments = <<>>
    /\ vehicle_loads = <<>>
    /\ current_evaluation = <<Inf, Inf>>
    /\ cs_loads = <<>>
    /\ cs_skipped = <<>>
    /\ cs_k = 0
    /\ candidates = <<>>

\* --------------------------------------------------------------- actions
\* solve(), lines 95-96
Solve ==
    /\ pc = "idle"
    /\ pheromones' = initialize_pheromones(Len(vehicle_data))
    /\ iteration' = 0
    /\ pc' = "round"
    /\ UNCHANGED <<config, record, ant, roundvars, current_evaluation,
                   csvars, candidates>>

\* lines 98-102: the next iteration begins
RoundStart ==
    /\ pc = "round"
    /\ iteration < num_iterations
    /\ iteration_best_solution' = None
    /\ iteration_best_vehicles_used' = Inf
    /\ iteration_skipped_shipments' = <<>>
    /\ vehicle_loads' = <<>>
    /\ ant' = 0
    /\ candidates' = <<>>
    /\ pc' = "ants"
    /\ UNCHANGED <<config, record, pheromones, iteration,
                   current_evaluation, csvars>>

\* line 98: range(num_iterations) is exhausted, solve() returns
SolveReturn ==
    /\ pc = "round"
    /\ iteration >= num_iterations
    /\ pc' = "done"
    /\ UNCHANGED <<config, record, pheromones, iteration, ant, roundvars,
                   current_evaluation, csvars, candidates>>

\* lines 103-104 and 84-85: the next ant enters construct_solution
ConstructStart ==
    /\ pc = "ants"
    /\ ant < num_ants
    /\ cs_loads' = [i \in 1..Len(vehicle_data) |-> <<>>]
    /\ cs_skipped' = <<>>
    /\ cs_k' = 1
    /\ pc' = "construct"
    /\ UNCHANGED <<config, record, pheromones, iteration, ant, roundvars,
                   current_evaluation, candidates>>

\* lines 87-90 with place_shipment (49-72): one shipment is processed
PlaceStep ==
    /\ pc = "construct"
    /\ cs_k <= Len(shipment_data)
    /\ \E out \in place_shipment(cs_k, cs_loads, pheromones) :
          /\ cs_loads' = out.loads
          /\ cs_skipped' = record_skipped(out.placed, cs_skipped, cs_k)
    /\ cs_k' = cs_k + 1
    /\ UNCHANGED <<config, record, pc, pheromones, iteration, ant,
                   roundvars, current_evaluation, candidates>>

\* lines 92 and 104-110: construct_solution returns, round-best tracking
AntDone ==
    /\ pc = "construct"
    /\ cs_k > Len(shipment_data)
    /\ vehicle_loads' = cs_loads
    /\ candidates' = Append(candidates,
                            [loads |-> cs_loads, skipped |-> cs_skipped])
    /\ LET used == vehicles_used(cs_loads)
       IN IF NumLess(used, iteration_best_vehicles_used)
          THEN /\ iteration_best_vehicles_used' = used
               /\ iteration_best_solution' = Some(cs_loads)
               /\ iteration_skipped_shipments' = cs_skipped
          ELSE UNCHANGED <<iteration_best_vehicles_used,
                           iteration_best_solution,
                           iteration_skipped_shipments>>
    /\ ant' = ant + 1
    /\ pc' = "ants"
    /\ UNCHANGED <<config, record, pheromones, iteration,
                   current_evaluation, csvars>>

\* lines 112-124: the ants of the round are done
RoundEnd ==
    /\ pc = "ants"
    /\ ant >= num_ants
    /\ current_evaluation' = evaluate_solution(vehicle_loads)
    /\ IF TupleLess(current_evaluation', best_evaluation)
       THEN /\ best_evaluation' = current_evaluation'
            /\ best_solution' = Some(vehicle_loads)
            /\ skipped_shipments' = iteration_skipped_shipments
       ELSE UNCHANGED <<best_evaluation, best_solution, skipped_shipments>>
    /\ IF DivisionByZero(pheromones, iteration_best_solution,
                         iteration_best_vehicles_used)
       THEN /\ pc' = "ZeroDivisionError"
            /\ UNCHANGED <<pheromones, iteration>>
       ELSE /\ pheromones' = PheromoneUpdate(pheromones,
                                 iteration_best_solution,
                                 iteration_best_vehicles_used, decay)
            /\ iteration' = iteration + 1
            /\ pc' = "round"
    /\ UNCHANGED <<config, best_vehicles_used, ant, roundvars, csvars,
                   candidates>>

Next ==
    \/ Solve
    \/ RoundStart
    \/ SolveReturn
    \/ ConstructStart
    \/ PlaceStep
    \/ AntDone
    \/ RoundEnd

Spec == Init /\ [][Next]_vars

\* ------------------------------------------------- vocabulary of the claims
\* ant count and round count positive, decay rate inside [0,1)
ValidConfiguration ==
    /\ num_ants > 0
    /\ num_iterations > 0
    /\ decay[1] >= 0
    /\ decay[1] < decay[2]

Shipments == 1..Len(shipment_data)

Vehicles == 1..Len(vehicle_data)

CountIn(seq, s) == Cardinality({p \in DOMAIN seq : seq[p] = s})

\* how often shipment s occurs in the loads and the unplaced list together
Occurrences(loads, skipped, s) ==
    SumOver([i \in DOMAIN loads |-> CountIn(loads[i], s)], DOMAIN loads)
        + CountIn(skipped, s)

\* loads and skipped together hold exactly the input shipments, each once
Partition(loads, skipped) ==
    /\ \A s \in Shipments : Occurrences(loads, skipped, s) = 1
    /\ \A i \in DOMAIN loads : \A p \in DOMAIN loads[i] :
          loads[i][p] \in Shipments
    /\ \A p \in DOMAIN skipped : skipped[p] \in Shipments

Demand(load) ==
    SumOver([p \in DOMAIN load |-> shipment_data[load[p]]], DOMAIN load)

WithinCapacity(loads) ==
    \A i \in DOMAIN loads : Demand(loads[i]) <= vehicle_data[i]

NonEmpty(loads) == {i \in DOMAIN loads : loads[i] # <<>>}

\* lexicographic order on scores: vehiclesUsed, then totalRemainingCapacity
LexLess(a, b) ==
    \/ NumLess(a[1], b[1])
    \/ a[1] = b[1] /\ NumLess(a[2], b[2])

\* the first ant of the round that attains the lowest vehiclesUsed
RoundBest ==
    candidates[CHOOSE a \in DOMAIN candidates :
        /\ \A b \in DOMAIN candidates :
              Cardinality(NonEmpty(candidates[a].loads))
                  <= Cardinality(NonEmpty(candidates[b].loads))
        /\ \A b \in 1..(a - 1) :
              Cardinality(NonEmpty(candidates[b].loads))
                  > Cardinality(NonEmpty(candidates[a].loads))]

Score(loads) ==
    <<Cardinality(NonEmpty(loads)),
      SumOver([i \in NonEmpty(loads) |-> vehicle_data[i] - Demand(loads[i])],
              NonEmpty(loads))>>

\* the step that ends a round (lines 112-124)
RoundEnds == pc = "ants" /\ pc' # "ants" /\ pc' # "construct"

PositivePheromones == \A i \in DOMAIN pheromones : pheromones[i][i][1] > 0

\* ----------------------------------------------------------------- claims
\* C1: every candidate returned by construct_solution holds every input
\* shipment exactly once, either in one vehicle's load or in the skipped
\* list, never in both, never in neither, never twice.
C1_CandidatePartition ==
    /\ \A a \in DOMAIN candidates :
          Partition(candidates[a].loads, candidates[a].skipped)
    /\ (pc = "construct" /\ cs_k > Len(shipment_data))
          => Partition(cs_loads, cs_skipped)

C1_Witness ==
    \E a \in DOMAIN candidates :
        /\ candidates[a].skipped # <<>>
        /\ NonEmpty(candidates[a].loads) # {}

\* C2: at every step of every construction and in every candidate that is
\* returned, tracked as round-best or stored as best_solution, the demands
\* assigned to a vehicle sum to at most that vehicle's capacity.
C2_WithinCapacity ==
    /\ WithinCapacity(cs_loads)
    /\ WithinCapacity(vehicle_loads)
    /\ WithinCapacity(iteration_best_solution.loads)
    /\ WithinCapacity(best_solution.loads)
    /\ \A a \in DOMAIN candidates : WithinCapacity(candidates[a].loads)

C2_Witness ==
    /\ pc = "done"
    /\ \E i \in DOMAIN best_solution.loads :
          /\ Len(best_solution.loads[i]) >= 2
          /\ Demand(best_solution.loads[i]) = vehicle_data[i]

\* C3 (as claimed): after solve() with at least one round and one ant,
\* best_solution and skipped_shipments together hold every input shipment
\* exactly once.
C3_RecordPartition ==
    (pc = "done" /\ ValidConfiguration)
        => /\ ~best_solution.none
           /\ Partition(best_solution.loads, skipped_shipments)

\* C4 (as claimed): the candidate scored at the end of a round is the
\* round's best candidate, and it becomes the record when its score beats
\* the record.
C4_RoundBestEvaluated ==
    [][(RoundEnds /\ ValidConfiguration) =>
          /\ current_evaluation' = Score(RoundBest.loads)
          /\ LexLess(Score(RoundBest.loads), best_evaluation)
                => /\ best_evaluation' = Score(RoundBest.loads)
                   /\ best_solution' = Some(RoundBest.loads)
                   /\ skipped_shipments' = RoundBest.skipped]_vars

\* C5: best_evaluation is unchanged or strictly smaller (lexicographically)
\* after every step, and best_solution / skipped_shipments change only
\* together with a strict improvement of best_evaluation.
C5_Monotone ==
    [][/\ \/ best_evaluation' = best_evaluation
          \/ LexLess(best_evaluation', best_evaluation)
       /\ (best_solution' # best_solution
             \/ skipped_shipments' # skipped_shipments)
            => LexLess(best_evaluation', best_evaluation)]_vars

\* a second or later round has ended whose scored candidate was worse than
\* the record
C5_Witness ==
    /\ pc = "round"
    /\ iteration >= 2
    /\ LexLess(best_evaluation, current_evaluation)

\* C6: the end of a round multiplies every cell by (1 - decay) and then adds
\* 1 / vehiclesUsed of the round-best candidate to every cell of each row
\* whose vehicle is non-empty in the round-best candidate; other rows are
\* only decayed; no division by zero happens.
C6_DecayAndReinforce ==
    [][RoundEnds =>
          /\ pc' = "round"
          /\ DOMAIN pheromones' = Vehicles
          /\ \A i \in Vehicles :
                /\ DOMAIN pheromones'[i] = Vehicles
                /\ \A j \in Vehicles :
                      pheromones'[i][j] =
                        RAdd(RMul(pheromones[i][j], ROneMinus(decay)),
                             IF candidates # <<>>
                                  /\ i \in NonEmpty(RoundBest.loads)
                             THEN <<1, Cardinality(NonEmpty(RoundBest.loads))>>
                             ELSE RZero)]_vars

\* a round that did not improve the record has reinforced one row and only
\* decayed another
C6_Witness ==
    /\ pc = "round"
    /\ iteration >= 2
    /\ Len(vehicle_data) >= 2
    /\ candidates # <<>>
    /\ NonEmpty(RoundBest.loads) # {}
    /\ NonEmpty(RoundBest.loads) # Vehicles
    /\ LexLess(best_evaluation, current_evaluation)
    /\ decay = <<1, 2>>

\* C7 (as claimed): with a non-positive ant count, a non-positive round
\* count or a decay rate outside [0,1), no round executes and no record is
\* produced.
C7_InvalidConfigurationRejected ==
    ~ValidConfiguration
        => /\ pc \notin {"ants", "construct"}
           /\ iteration = 0
           /\ best_solution = None
           /\ best_evaluation = <<Inf, Inf>>

\* C8 (as claimed): after solve(), best_vehicles_used is the number of
\* non-empty vehicles of best_solution, i.e. best_evaluation[1].
C8_BestVehiclesUsed ==
    (pc = "done" /\ ValidConfiguration)
        => /\ best_vehicles_used = Cardinality(NonEmpty(best_solution.loads))
           /\ best_vehicles_used = best_evaluation[1]

\* C9: with positive demand and positive pheromones a shipment is recorded
\* as unplaced exactly when no vehicle has room for it; otherwise it is
\* appended to exactly one vehicle that has room.  A shipment larger than
\* every vehicle is unplaced in every candidate.
C9_PlacedIffFeasible ==
    /\ [][(pc = "construct" /\ cs_k' = cs_k + 1
             /\ shipment_data[cs_k] > 0 /\ PositivePheromones) =>
            LET feasible == {i \in Vehicles :
                    Demand(cs_loads[i]) + shipment_data[cs_k]
                        <= vehicle_data[i]}
            IN /\ (feasible = {}) <=> (cs_skipped' = Append(cs_skipped, cs_k))
               /\ (feasible = {}) => cs_loads' = cs_loads
               /\ (feasible # {}) =>
                     /\ cs_skipped' = cs_skipped
                     /\ \E i \in feasible :
                           cs_loads' = [cs_loads EXCEPT ![i] = Append(@, cs_k)]
          ]_vars
    /\ [](\A a \in DOMAIN candidates : \A s \in Shipments :
            (\A i \in Vehicles : shipment_data[s] > vehicle_data[i])
               => /\ CountIn(candidates[a].skipped, s) = 1
                  /\ \A i \in Vehicles : CountIn(candidates[a].loads[i], s) = 0)

\* after a pheromone update, a construction has placed one shipment and left
\* out another that would have fitted an empty vehicle
C9_Witness ==
    /\ pc = "construct"
    /\ cs_k > Len(shipment_data)
    /\ iteration >= 1
    /\ PositivePheromones
    /\ \A s \in Shipments : shipment_data[s] > 0
    /\ NonEmpty(cs_loads) # {}
    /\ \E p \in DOMAIN cs_skipped : \E i \in Vehicles :
          shipment_data[cs_skipped[p]] <= vehicle_data[i]

\* C10: every row of the pheromone matrix is constant, after
\* initialize_pheromones and after any number of rounds.
C10_RowsConstant ==
    \A i \in DOMAIN pheromones : \A j \in DOMAIN pheromones[i] :
        pheromones[i][j] = pheromones[i][i]

C10_Witness ==
    /\ iteration >= 1
    /\ Len(pheromones) >= 2
    /\ pheromones[1][1] # pheromones[2][2]
    /\ pheromones[1][1] # ROne
    /\ pheromones[1][2] = pheromones[1][1]

====
